---- MODULE Spec2Model ----
(***************************************************************************)
(* Model of thesis_downloader.py: the handle resolver (discover_handle),   *)
(* the similarity scorer, the metadata fetcher (get_thesis_metadata), the  *)
(* record store (parse_theses_file / save_theses_file) and the batch       *)
(* driver (main).                                                          *)
(*                                                                         *)
(* Each component has its own specification; the variables of the other    *)
(* components stay at their idle values.                                   *)
(***************************************************************************)
EXTENDS Integers, Sequences, FiniteSets, TLC

VARIABLES
    \* ---- discover_handle -------------------------------------------------
    pc,          \* position in discover_handle: "start", "loop", "done"
    strategy,    \* index into search_strategies of the strategy being tried
    response,    \* the response the while-loop is about to process
    elapsed,     \* time.time() - start_time
    result,      \* return value of discover_handle (None until it returns)
    requests,    \* every requests.get issued against oai_url, in order
    pages,       \* responses received in the strategy tried last
    seen_max,    \* largest combined score scored in the current strategy
    last_end     \* how the strategy that was just left ended

resolverVars == <<pc, strategy, response, elapsed, result, requests, pages,
                  seen_max, last_end>>

VARIABLES
    \* ---- save_theses_file / parse_theses_file ----------------------------
    store_pc,    \* "save", "parse", "done"
    saved,       \* the list handed to save_theses_file
    store_file,  \* the lines of the file it wrote
    reparsed     \* what parse_theses_file returns for that file

storeVars == <<store_pc, saved, store_file, reparsed>>

VARIABLES
    \* ---- main ------------------------------------------------------------
    main_pc,              \* "load", "loop", "save", "done"
    stored,               \* the records mytheses.txt was written from
    file,                 \* the lines of mytheses.txt
    current_year,         \* datetime.now().year
    theses,               \* parse_theses_file('mytheses.txt')
    idx,                  \* position of the for-loop in theses
    theses_with_handles,
    discovered_handles,
    metadata_count,
    metadata_files,       \* the files save_metadata wrote: <<name, content>>
    calls,                \* downloader calls made: <<function, record, return>>
    outcomes,             \* how each iteration of the for-loop ended
    writes                \* number of times save_theses_file ran

mainVars == <<main_pc, stored, file, current_year, theses, idx,
              theses_with_handles, discovered_handles, metadata_count,
              metadata_files, calls, outcomes, writes>>

VARIABLES
    \* ---- get_thesis_metadata ---------------------------------------------
    fetch_pc,    \* "call", "returned" (a ThesisMetadata), "none"
    rest,        \* the response of /rest/handle/{handle}
    html,        \* the response of /handle/{handle}
    metadata     \* the fields of the ThesisMetadata returned

fetchVars == <<fetch_pc, rest, html, metadata>>

VARIABLES
    \* ---- _similarity_score -----------------------------------------------
    score_pc,    \* "forward", "backward", "done"
    text1,       \* the two texts
    text2,
    forward,     \* _similarity_score(text1, text2)
    backward     \* _similarity_score(text2, text1)

scoreVars == <<score_pc, text1, text2, forward, backward>>

vars == <<resolverVars, storeVars, mainVars, fetchVars, scoreVars>>

None == "None"

\* Bounds of the model
MaxBatch == 2      \* records in one feed response
MaxPages == 4      \* responses the feed serves for one strategy

(***************************************************************************)
(* discover_handle                                                         *)
(***************************************************************************)

\* search_strategies, as the extra request parameter each one adds
search_strategies ==
    << <<"set", "com_10467_3566">>, <<"from", "2000-01-01">>, <<>> >>

max_time == 60          \* seconds per strategy
TitleWeight == 6        \* 0.6, in tenths
CreatorWeight == 4      \* 0.4, in tenths
Threshold == 800        \* 0.8, in thousandths (scores are in percent)

\* Time a continuation request may take (requests.get has timeout=30, and
\* parsing takes time as well)
Durations == {0, 61}

MaxRecords == 2    \* records in the record store
MaxTitle == 3      \* characters in a title
MaxRows == 2       \* rows of the metadata table of the HTML page
MaxMeta == 2       \* meta tags of the HTML page
MaxText == 4       \* characters in a text that is scored

Max(S) == CHOOSE x \in S : \A y \in S : y <= x

Range(s) == {s[i] : i \in 1..Len(s)}

(***************************************************************************)
(* Strings are sequences of one-character strings.                         *)
(***************************************************************************)

PyNone == <<"None">>     \* Python's None where a string may stand

Whitespace == {" ", "\t", "\n"}

\* s.strip()
RECURSIVE LStrip(_)
LStrip(s) ==
    IF s # <<>> /\ Head(s) \in Whitespace THEN LStrip(Tail(s)) ELSE s

RECURSIVE RStrip(_)
RStrip(s) ==
    IF s # <<>> /\ s[Len(s)] \in Whitespace
    THEN RStrip(SubSeq(s, 1, Len(s) - 1)) ELSE s

Strip(s) == RStrip(LStrip(s))

\* s.split(sep): the pieces between the separators, at least one piece
RECURSIVE SplitFrom(_, _, _)
SplitFrom(s, sep, piece) ==
    IF s = <<>> THEN <<piece>>
    ELSE IF Head(s) = sep THEN <<piece>> \o SplitFrom(Tail(s), sep, <<>>)
    ELSE SplitFrom(Tail(s), sep, Append(piece, Head(s)))

Split(s, sep) == SplitFrom(s, sep, <<>>)

\* sep.join(parts)
RECURSIVE Join(_, _)
Join(parts, sep) ==
    IF parts = <<>> THEN <<>>
    ELSE IF Len(parts) = 1 THEN parts[1]
    ELSE parts[1] \o <<sep>> \o Join(Tail(parts), sep)

Digits == <<"0", "1", "2", "3", "4", "5", "6", "7", "8", "9">>

DigitValue(c) == (CHOOSE d \in 1..Len(Digits) : Digits[d] = c) - 1

IsDigits(s) == s # <<>> /\ \A k \in 1..Len(s) : s[k] \in Range(Digits)

RECURSIVE DigitsValue(_)
DigitsValue(s) ==
    IF s = <<>> THEN 0
    ELSE DigitsValue(SubSeq(s, 1, Len(s) - 1)) * 10 + DigitValue(s[Len(s)])

\* int(year): the value, or ValueError.  A sign and surrounding whitespace
\* are accepted.
ValueError == "ValueError"
Unsigned(s) == IF s # <<>> /\ Head(s) \in {"+", "-"} THEN Tail(s) ELSE s
IsInt(s) == IsDigits(Unsigned(Strip(s)))
Int_(s) ==
    LET t == Strip(s) IN
        IF t # <<>> /\ Head(t) = "-" THEN 0 - DigitsValue(Unsigned(t))
        ELSE DigitsValue(Unsigned(t))

(***************************************************************************)
(* parse_theses_file / save_theses_file                                    *)
(* A thesis is the tuple <<title, author, type, year, handle>>.            *)
(***************************************************************************)

\* The body of the for-loop of parse_theses_file: the theses one line adds
ParseLine(rawline) ==
    LET line == Strip(rawline)
        parts == Split(line, ",")
        n == Len(parts)
    IN  IF line = <<>> THEN <<>>
        ELSE IF n >= 4
        THEN LET author == Strip(parts[1])
                 handle == IF n >= 5 THEN Strip(parts[n]) ELSE PyNone
                 title == IF n >= 5
                          THEN Strip(Join(SubSeq(parts, 2, n - 3), ","))
                          ELSE Strip(Join(SubSeq(parts, 2, n - 2), ","))
                 type_ == Strip(parts[n - 1])
                 year == Strip(parts[n])
             IN  << <<title, author, type_, year, handle>> >>
        ELSE <<>>

RECURSIVE parse_theses_file(_)
parse_theses_file(lines) ==
    IF lines = <<>> THEN <<>>
    ELSE ParseLine(Head(lines)) \o parse_theses_file(Tail(lines))

\* `if handle:` - None and the empty string are both false
Truthy(s) == s # PyNone /\ s # <<>>

\* The line save_theses_file writes for one thesis
SaveLine(thesis) ==
    LET parts == <<thesis[2], thesis[1], thesis[3], thesis[4]>>
                 \o (IF Truthy(thesis[5]) THEN <<thesis[5]>> ELSE <<>>)
    IN  Join(parts, ",")

save_theses_file(list) == [k \in 1..Len(list) |-> SaveLine(list[k])]

\* An identifier element: absent, present with empty text, or a text given
\* as its '/'-separated segments
NoElement == <<>>
EmptyText == <<"">>     \* "".split('/')
NoMatch == <<>>         \* best_match = None, and the None discover_handle returns
Blank == -1             \* a dc:creator whose text is only whitespace

\* '/'.join(best_match.split('/')[-2:])
Handle(identifier) ==
    IF Len(identifier) <= 2 THEN identifier
    ELSE SubSeq(identifier, Len(identifier) - 1, Len(identifier))

\* One feed record: whether it has an oai_dc:dc element, the similarity (in
\* percent) of each of its titles to the query title, the similarity of each
\* creator's last token to the last name, and its identifier element.
Candidate(md, ts, cs, id) ==
    [metadata |-> md, title_scores |-> ts, creator_scores |-> cs,
     identifier |-> id]

IdA == <<"oai:dspace.cvut.cz:10467", "1">>
IdB == <<"http:", "", "hdl.handle.net", "10467", "2">>

CandidatePool ==
    { Candidate(FALSE, <<100>>, <<100>>, IdA),      \* no oai_dc:dc element
      Candidate(TRUE, <<100>>, <<50>>, IdA),        \* 0.8 exactly
      Candidate(TRUE, <<75>>, <<50, 100>>, IdA),    \* 0.85
      Candidate(TRUE, <<75, 100>>, <<100>>, IdB),   \* 1.0
      Candidate(TRUE, <<100>>, <<100>>, NoElement) }  \* 1.0, no identifier

Batches == UNION { [1..n -> CandidatePool] : n \in 0..MaxBatch }

NoToken == 0            \* no resumptionToken element
EmptyToken == -1        \* resumptionToken element without text
\* The feed's resumption tokens are cursors: the token of its p-th page is p
Tokens == 1..MaxPages

\* A response body: XML that parses, or content ET.fromstring rejects
NotXml == [xml |-> FALSE, records |-> <<>>, token |-> NoToken]

\* The responses the feed may give as page p of a strategy
Responses(p) ==
    [xml : {TRUE}, records : Batches,
     token : {NoToken, EmptyToken} \cup (IF p < MaxPages THEN {p} ELSE {})]
    \cup {NotXml}

\* score = max(title_scores) * 0.6 + max(creator_scores) * 0.4
Score(c) ==
    Max(Range(c.title_scores)) * TitleWeight
    + Max(Range(c.creator_scores)) * CreatorWeight

Scored(c) == c.metadata /\ c.title_scores # <<>> /\ c.creator_scores # <<>>

\* The for-loop over the records of one batch, from record i on, with the
\* running best_match / best_score.  raised: the loop left by an exception.
RECURSIVE ScanRecords(_, _, _, _)
ScanRecords(records, i, best_match, best_score) ==
    IF i > Len(records)
    THEN [best_match |-> best_match, best_score |-> best_score,
          raised |-> FALSE]
    ELSE LET c == records[i] IN
         IF ~c.metadata
         THEN ScanRecords(records, i + 1, best_match, best_score)
         ELSE IF Blank \in Range(c.creator_scores)
         THEN [best_match |-> best_match, best_score |-> best_score,
               raised |-> TRUE]
         ELSE IF c.title_scores # <<>> /\ c.creator_scores # <<>>
                 /\ Score(c) > best_score /\ Score(c) > Threshold
         THEN ScanRecords(records, i + 1,
                  IF c.identifier \notin {NoElement, EmptyText}
                  THEN c.identifier ELSE best_match,
                  Score(c))
         ELSE ScanRecords(records, i + 1, best_match, best_score)

\* best_match = None; best_score = 0; for record in records: ...
BatchMatch(records) == ScanRecords(records, 1, NoMatch, 0)

\* Scores scored in a batch before the loop ends (normally or by raising)
RECURSIVE BatchScores(_, _)
BatchScores(records, i) ==
    IF i > Len(records) THEN {}
    ELSE LET c == records[i] IN
         IF ~c.metadata THEN BatchScores(records, i + 1)
         ELSE IF Blank \in Range(c.creator_scores) THEN {}
         ELSE (IF Scored(c) THEN {Score(c)} ELSE {})
              \cup BatchScores(records, i + 1)

Request(s, restriction, token) ==
    [strategy |-> s, verb |-> "ListRecords", restriction |-> restriction,
     resumptionToken |-> token]

\* The other components, at rest
IdleStore ==
    /\ store_pc = "idle"
    /\ saved = <<>>
    /\ store_file = <<>>
    /\ reparsed = <<>>

IdleMain ==
    /\ main_pc = "idle"
    /\ stored = <<>>
    /\ file = <<>>
    /\ current_year = 0
    /\ theses = <<>>
    /\ idx = 0
    /\ theses_with_handles = <<>>
    /\ discovered_handles = {}
    /\ metadata_count = 0
    /\ metadata_files = {}
    /\ calls = <<>>
    /\ outcomes = <<>>
    /\ writes = 0

IdleFetch ==
    /\ fetch_pc = "idle"
    /\ rest = None
    /\ html = None
    /\ metadata = None

NoScore == [num |-> 0, den |-> 0]

IdleScore ==
    /\ score_pc = "idle"
    /\ text1 = <<>>
    /\ text2 = <<>>
    /\ forward = NoScore
    /\ backward = NoScore

IdleResolver ==
    /\ pc = "idle"
    /\ strategy = 0
    /\ response = None
    /\ elapsed = 0
    /\ result = NoMatch
    /\ requests = <<>>
    /\ pages = 0
    /\ seen_max = 0
    /\ last_end = None

notResolver == <<storeVars, mainVars, fetchVars, scoreVars>>
notStore == <<resolverVars, mainVars, fetchVars, scoreVars>>
notMain == <<resolverVars, storeVars, fetchVars, scoreVars>>
notFetch == <<resolverVars, storeVars, mainVars, scoreVars>>
notScore == <<resolverVars, storeVars, mainVars, fetchVars>>

InitResolver ==
    /\ IdleScore
    /\ IdleStore
    /\ IdleMain
    /\ IdleFetch
    /\ pc = "start"
    /\ strategy = 1
    /\ response = None
    /\ elapsed = 0
    /\ result = NoMatch
    /\ requests = <<>>
    /\ pages = 0
    /\ seen_max = 0
    /\ last_end = None

\* `continue` / `break`: on to the next strategy, or fall out of the for-loop
\* and return None
NextStrategy(how) ==
    /\ last_end' = how
    /\ response' = None
    /\ seen_max' = 0
    /\ elapsed' = 0
    /\ result' = NoMatch
    /\ IF strategy < Len(search_strategies)
       THEN pc' = "start" /\ strategy' = strategy + 1
       ELSE pc' = "done" /\ strategy' = strategy

\* The first request of a strategy succeeds; start_time is taken
FirstRequest ==
    /\ pc = "start"
    /\ requests' = Append(requests,
                          Request(strategy, search_strategies[strategy], NoToken))
    /\ \E r \in Responses(1) : response' = r
    /\ pages' = 1
    /\ elapsed' = 0
    /\ pc' = "loop"
    /\ last_end' = None
    /\ UNCHANGED <<strategy, result, seen_max>>
    /\ UNCHANGED notResolver

\* The first request of a strategy raises (connection error, HTTP status)
FirstRequestFails ==
    /\ pc = "start"
    /\ requests' = Append(requests,
                          Request(strategy, search_strategies[strategy], NoToken))
    /\ pages' = 0
    /\ NextStrategy("request_failed")
    /\ UNCHANGED notResolver

\* Timeout as a hard stop: the call returns None instead of breaking
Timeout_ReturnsNone ==
    /\ pc = "loop"
    /\ elapsed > max_time
    /\ last_end' = "timeout"
    /\ result' = NoMatch
    /\ pc' = "done"
    /\ UNCHANGED <<strategy, response, elapsed, seen_max, requests, pages>>
    /\ UNCHANGED notResolver

\* if time.time() - start_time > max_time: break
Timeout ==
    /\ pc = "loop"
    /\ elapsed > max_time
    /\ NextStrategy("timeout")
    /\ UNCHANGED <<requests, pages>>
    /\ UNCHANGED notResolver

\* ET.fromstring raises, or scoring a record raises
ParseError ==
    /\ pc = "loop"
    /\ elapsed <= max_time
    /\ \/ ~response.xml
       \/ response.xml /\ BatchMatch(response.records).raised
    /\ NextStrategy("error")
    /\ UNCHANGED <<requests, pages>>
    /\ UNCHANGED notResolver

\* Accept with the return placed after the next continuation request
Accept_ReturnsLate ==
    /\ pc = "loop"
    /\ elapsed <= max_time
    /\ response.xml
    /\ LET m == BatchMatch(response.records) IN
          /\ ~m.raised
          /\ m.best_match # NoMatch
          /\ result' = Handle(m.best_match)
          /\ seen_max' = Max({seen_max} \cup BatchScores(response.records, 1))
    /\ requests' = Append(requests, Request(strategy, <<>>, response.token))
    /\ pc' = "done"
    /\ last_end' = "accepted"
    /\ UNCHANGED <<strategy, response, elapsed, pages>>
    /\ UNCHANGED notResolver

\* if best_match: return handle
Accept ==
    /\ pc = "loop"
    /\ elapsed <= max_time
    /\ response.xml
    /\ LET m == BatchMatch(response.records) IN
          /\ ~m.raised
          /\ m.best_match # NoMatch
          /\ result' = Handle(m.best_match)
          /\ seen_max' = Max({seen_max} \cup BatchScores(response.records, 1))
    /\ pc' = "done"
    /\ last_end' = "accepted"
    /\ UNCHANGED <<strategy, response, elapsed, requests, pages>>
    /\ UNCHANGED notResolver

\* if token is None or not token.text: break
Exhausted ==
    /\ pc = "loop"
    /\ elapsed <= max_time
    /\ response.xml
    /\ LET m == BatchMatch(response.records) IN
          ~m.raised /\ m.best_match = NoMatch
    /\ response.token \in {NoToken, EmptyToken}
    /\ NextStrategy("exhausted")
    /\ UNCHANGED <<requests, pages>>
    /\ UNCHANGED notResolver

\* Continue with the strategy's restriction repeated next to the token
Continue_KeepsRestriction ==
    /\ pc = "loop"
    /\ elapsed <= max_time
    /\ response.xml
    /\ LET m == BatchMatch(response.records) IN
          ~m.raised /\ m.best_match = NoMatch
    /\ response.token \in Tokens
    /\ requests' = Append(requests,
           Request(strategy, search_strategies[strategy], response.token))
    /\ seen_max' = Max({seen_max} \cup BatchScores(response.records, 1))
    /\ pages' = pages + 1
    /\ \E r \in Responses(pages + 1) : response' = r
    /\ \E d \in Durations : elapsed' = elapsed + d
    /\ UNCHANGED <<pc, strategy, result, last_end>>
    /\ UNCHANGED notResolver

\* The continuation request succeeds
Continue ==
    /\ pc = "loop"
    /\ elapsed <= max_time
    /\ response.xml
    /\ LET m == BatchMatch(response.records) IN
          ~m.raised /\ m.best_match = NoMatch
    /\ response.token \in Tokens
    /\ requests' = Append(requests, Request(strategy, <<>>, response.token))
    /\ seen_max' = Max({seen_max} \cup BatchScores(response.records, 1))
    /\ pages' = pages + 1
    /\ \E r \in Responses(pages + 1) : response' = r
    /\ \E d \in Durations : elapsed' = elapsed + d
    /\ UNCHANGED <<pc, strategy, result, last_end>>
    /\ UNCHANGED notResolver

\* The continuation request raises
ContinueFails ==
    /\ pc = "loop"
    /\ elapsed <= max_time
    /\ response.xml
    /\ LET m == BatchMatch(response.records) IN
          ~m.raised /\ m.best_match = NoMatch
    /\ response.token \in Tokens
    /\ requests' = Append(requests, Request(strategy, <<>>, response.token))
    /\ NextStrategy("request_failed")
    /\ UNCHANGED pages
    /\ UNCHANGED notResolver



NextResolver ==
    \/ FirstRequest
    \/ FirstRequestFails
    \/ Timeout
    \/ ParseError
    \/ Accept
    \/ Exhausted
    \/ Continue
    \/ ContinueFails

SpecResolver == InitResolver /\ [][NextResolver]_vars

(***************************************************************************)
(* Properties of discover_handle                                           *)
(***************************************************************************)

\* The requests issued for strategy s, in order
StrategyRequests(s) == SelectSeq(requests, LAMBDA r : r.strategy = s)

\* The strategy the last request was issued for
LastStrategy == requests[Len(requests)].strategy

HasIdentifier(c) == c.identifier \notin {NoElement, EmptyText}

\* C1: a handle is returned only if it is the handle of a candidate whose
\* combined score is strictly greater than 0.8 and is the maximum over all
\* candidates seen so far in the strategy that produced it (every batch up
\* to and including the accepting one).
C1_ReturnedHandleIsStrategyMax ==
    (pc = "done" /\ result # NoMatch) =>
        \E i \in 1..Len(response.records) :
            LET c == response.records[i] IN
                /\ Scored(c)
                /\ HasIdentifier(c)
                /\ Handle(c.identifier) = result
                /\ Score(c) > Threshold
                /\ Score(c) = seen_max

\* C5: strategies are requested in the fixed order (a), (b), (c), each one
\* starting with its own restriction; and once a batch yields an accepted
\* match the call has returned with that batch as the last response
\* requested: no continuation request and no request of a later strategy
\* follows it.
C5_FixedOrderFirstMatchWins ==
    /\ \A i \in 1..Len(requests) :
          LET r == requests[i]
              prev == IF i = 1 THEN 0 ELSE requests[i - 1].strategy
          IN  /\ r.strategy \in {prev, prev + 1}
              /\ r.strategy = prev + 1 =>
                    /\ r.restriction = search_strategies[r.strategy]
                    /\ r.resumptionToken = NoToken
    /\ (pc = "done" /\ result # NoMatch) =>
          /\ LastStrategy = strategy
          /\ Len(StrategyRequests(strategy)) = pages
          /\ BatchMatch(response.records).best_match # NoMatch

C5_Witness ==
    /\ pc = "done"
    /\ result # NoMatch
    /\ strategy = 2
    /\ pages = 2
    /\ response.token \in Tokens

\* C6: a strategy that ends by feed exhaustion after k token-bearing
\* responses and one without a token has issued exactly k+1 requests: the
\* first with the strategy's restriction, every later one with only the
\* token of the response before it.
C6_PaginationRequestCount ==
    last_end = "exhausted" =>
        LET rs == StrategyRequests(LastStrategy) IN
            /\ Len(rs) = pages
            /\ rs[1].restriction = search_strategies[LastStrategy]
            /\ rs[1].resumptionToken = NoToken
            /\ \A i \in 2..Len(rs) :
                  /\ rs[i].restriction = <<>>
                  /\ rs[i].resumptionToken = i - 1

C6_Witness ==
    /\ last_end = "exhausted"
    /\ pages = 4
    /\ Len(StrategyRequests(LastStrategy)) = 4

\* The ways a strategy ends without an accepted match
Unmatched == {"exhausted", "request_failed", "error", "timeout"}

\* C11: a strategy that ends without an accepted match (feed exhaustion,
\* failed request or unparsable response, soft timeout) never ends the
\* resolution by itself: the next strategy in order is tried next, and
\* discover_handle returns None exactly when all three strategies have been
\* tried and the last of them has ended without an accepted match.
C11_StrategyFallback ==
    /\ last_end \in Unmatched =>
          /\ result = NoMatch
          /\ IF LastStrategy < Len(search_strategies)
             THEN pc = "start" /\ strategy = LastStrategy + 1
             ELSE pc = "done"
    /\ pc = "done" => (result = NoMatch <=> last_end \in Unmatched)
    /\ (pc = "done" /\ result = NoMatch) =>
          /\ strategy = Len(search_strategies)
          /\ \A st \in 1..Len(search_strategies) :
                StrategyRequests(st) # <<>>

C11_Witness ==
    /\ pc = "done"
    /\ result = NoMatch
    /\ last_end = "timeout"
    /\ Len(StrategyRequests(1)) = 1
    /\ Len(StrategyRequests(2)) = 3

(***************************************************************************)
(* The record store on its own: save_theses_file, then parse_theses_file   *)
(***************************************************************************)

TitleChars == {"t", ",", " "}

Strings(chars, n) == UNION { [1..k -> chars] : k \in 0..n }

Lists(S, n) == UNION { [1..k -> S] : k \in 0..n }

Thesis(title, author, type_, year, handle) ==
    <<title, author, type_, year, handle>>

StoreTheses ==
    { Thesis(title, <<"a">>, <<"b">>, <<"7">>, handle) :
        title \in Strings(TitleChars, MaxTitle),
        handle \in {PyNone, <<"h">>} }

InitStore ==
    /\ IdleScore
    /\ IdleResolver
    /\ IdleMain
    /\ IdleFetch
    /\ store_pc = "save"
    /\ saved \in Lists(StoreTheses, MaxRecords) \ {<<>>}
    /\ store_file = <<>>
    /\ reparsed = <<>>

SaveStore ==
    /\ store_pc = "save"
    /\ store_file' = save_theses_file(saved)
    /\ store_pc' = "parse"
    /\ UNCHANGED <<saved, reparsed>>
    /\ UNCHANGED notStore

ParseStore ==
    /\ store_pc = "parse"
    /\ reparsed' = parse_theses_file(store_file)
    /\ store_pc' = "done"
    /\ UNCHANGED <<saved, store_file>>
    /\ UNCHANGED notStore

NextStore ==
    \/ SaveStore
    \/ ParseStore

SpecStore == InitStore /\ [][NextStore]_vars

\* C2: parse_theses_file applied to the file written by save_theses_file
\* returns exactly the title, author, type, year and handle that were saved.
C2_RoundTrip == store_pc = "done" => reparsed = saved

(***************************************************************************)
(* main                                                                    *)
(***************************************************************************)

YearNow == <<"2", "0", "2", "6">>
YearFuture == <<"2", "0", "2", "7">>
YearUnknown == <<"n", "d">>
CurrentYears == {2026}

\* The records mytheses.txt may have been written from
MainTheses ==
    { Thesis(title, <<"A">>, <<"b">>, year, handle) :
        title \in {<<"t">>, <<"t", ",", "u">>},
        year \in {YearNow, YearFuture, YearUnknown},
        handle \in {PyNone, <<"1", "/", "2">>} }

\* What discover_handle can return other than None
DiscoverableHandles == { <<"1", "/", "9">> }

\* What get_thesis_metadata can return other than None: title, author, type
\* and year of the ThesisMetadata (handle is the handle asked for)
FetchedMetadata ==
    { [title |-> <<"F">>, author |-> <<"G">>, type |-> <<"m">>,
       year |-> <<"2", "0", "2", "0">>],
      [title |-> <<>>, author |-> <<>>, type |-> <<>>, year |-> <<>>] }

InitMain ==
    /\ IdleScore
    /\ IdleResolver
    /\ IdleStore
    /\ IdleFetch
    /\ main_pc = "load"
    /\ stored \in Lists(MainTheses, MaxRecords)
    /\ file = save_theses_file(stored)
    /\ current_year = 0
    /\ theses = <<>>
    /\ idx = 0
    /\ theses_with_handles = <<>>
    /\ discovered_handles = {}
    /\ metadata_count = 0
    /\ metadata_files = {}
    /\ calls = <<>>
    /\ outcomes = <<>>
    /\ writes = 0

\* theses = parse_theses_file('mytheses.txt'); current_year = ...
Load ==
    /\ main_pc = "load"
    /\ theses' = parse_theses_file(file)
    /\ \E y \in CurrentYears : current_year' = y
    /\ idx' = 1
    /\ main_pc' = "loop"
    /\ UNCHANGED <<stored, file, theses_with_handles, discovered_handles,
                   metadata_count, metadata_files, calls, outcomes, writes>>
    /\ UNCHANGED notMain

InLoop == main_pc = "loop" /\ idx <= Len(theses)

\* int(year) succeeds and thesis_year > current_year
IsFuture(thesis) == IsInt(thesis[4]) /\ Int_(thesis[4]) > current_year

WithHandle(thesis, handle) ==
    <<thesis[1], thesis[2], thesis[3], thesis[4], handle>>

\* One iteration of the for-loop ends: t is what it appended
EndIteration(t, how) ==
    /\ theses_with_handles' = Append(theses_with_handles, t)
    /\ outcomes' = Append(outcomes, how)
    /\ idx' = idx + 1
    /\ UNCHANGED <<main_pc, stored, file, current_year, theses, writes>>
    /\ UNCHANGED notMain

\* discovered_handles[author] = current_handle
SetItem(dict, key, value) ==
    {e \in dict : e[1] # key} \cup {<<key, value>>}

Call(fn, i, ret) == <<fn, i, ret>>

\* Skipping future thesis
SkipFuture ==
    /\ InLoop
    /\ IsFuture(theses[idx])
    /\ EndIteration(theses[idx], "skipped")
    /\ UNCHANGED <<discovered_handles, metadata_count, metadata_files, calls>>

\* The record has no handle and discover_handle returns None
NoHandleFound ==
    /\ InLoop
    /\ ~IsFuture(theses[idx])
    /\ ~Truthy(theses[idx][5])
    /\ calls' = Append(calls, Call("discover_handle", idx, PyNone))
    /\ EndIteration(WithHandle(theses[idx], PyNone), "not_found")
    /\ UNCHANGED <<discovered_handles, metadata_count, metadata_files>>

\* The handle of the record, or the one discover_handle returns for it, and
\* the calls and discovered_handles after that
Resolved(h, after) ==
    LET thesis == theses[idx] IN
        IF Truthy(thesis[5])
        THEN /\ h = thesis[5]
             /\ after = [calls |-> calls, discovered |-> discovered_handles]
        ELSE /\ h \in DiscoverableHandles
             /\ after = [calls |-> Append(calls,
                                          Call("discover_handle", idx, h)),
                         discovered |-> SetItem(discovered_handles,
                                                thesis[2], h)]

ResolvedStates ==
    { [h |-> h, after |-> [calls |-> c, discovered |-> d]] :
        h \in DiscoverableHandles \cup {theses[idx][5]},
        c \in {calls} \cup {Append(calls, Call("discover_handle", idx, g)) :
                              g \in DiscoverableHandles},
        d \in {discovered_handles}
              \cup {SetItem(discovered_handles, theses[idx][2], g) :
                      g \in DiscoverableHandles} }

\* get_thesis_metadata returns None for the handle
MetadataMissing ==
    /\ InLoop
    /\ ~IsFuture(theses[idx])
    /\ \E r \in ResolvedStates :
          /\ Resolved(r.h, r.after)
          /\ calls' = Append(r.after.calls,
                             Call("get_thesis_metadata", idx, PyNone))
          /\ discovered_handles' = r.after.discovered
    /\ EndIteration(WithHandle(theses[idx], PyNone), "no_metadata")
    /\ UNCHANGED <<metadata_count, metadata_files>>

\* Validate and fix metadata if needed
Backfill(m, thesis) ==
    [title |-> IF ~Truthy(m.title) /\ Truthy(thesis[1])
               THEN thesis[1] ELSE m.title,
     author |-> IF ~Truthy(m.author) /\ Truthy(thesis[2])
                THEN thesis[2] ELSE m.author,
     type |-> IF ~Truthy(m.type) /\ Truthy(thesis[3])
              THEN thesis[3] ELSE m.type,
     year |-> IF ~Truthy(m.year) /\ Truthy(thesis[4])
              THEN thesis[4] ELSE m.year]

\* metadata.handle.replace('/', '_'): the name of the metadata file
RECURSIVE FileName(_)
FileName(handle) ==
    IF handle = <<>> THEN <<>>
    ELSE <<IF Head(handle) = "/" THEN "_" ELSE Head(handle)>>
         \o FileName(Tail(handle))

\* get_thesis_metadata returns metadata and save_metadata writes it
MetadataSaved ==
    /\ InLoop
    /\ ~IsFuture(theses[idx])
    /\ \E r \in ResolvedStates, m \in FetchedMetadata :
          /\ Resolved(r.h, r.after)
          /\ calls' = Append(Append(r.after.calls,
                                Call("get_thesis_metadata", idx, r.h)),
                             Call("save_metadata", idx, r.h))
          /\ discovered_handles' = r.after.discovered
          /\ metadata_files' = SetItem(metadata_files, FileName(r.h),
                                       Backfill(m, theses[idx]))
          /\ EndIteration(WithHandle(theses[idx], r.h), "saved")
    /\ metadata_count' = metadata_count + 1

\* RecordError with the exception leaving main
RecordError_Propagates ==
    /\ InLoop
    /\ ~IsFuture(theses[idx])
    /\ \E r \in ResolvedStates :
          /\ Resolved(r.h, r.after)
          /\ calls' = Append(Append(r.after.calls,
                                Call("get_thesis_metadata", idx, r.h)),
                             Call("save_metadata", idx, ValueError))
          /\ discovered_handles' = r.after.discovered
    /\ main_pc' = "done"
    /\ outcomes' = Append(outcomes, "error")
    /\ UNCHANGED <<stored, file, current_year, theses, idx,
                   theses_with_handles, writes>>
    /\ UNCHANGED <<metadata_count, metadata_files>>
    /\ UNCHANGED notMain

\* get_thesis_metadata returns metadata and save_metadata raises (the file
\* cannot be written): except Exception
RecordError ==
    /\ InLoop
    /\ ~IsFuture(theses[idx])
    /\ \E r \in ResolvedStates :
          /\ Resolved(r.h, r.after)
          /\ calls' = Append(Append(r.after.calls,
                                Call("get_thesis_metadata", idx, r.h)),
                             Call("save_metadata", idx, ValueError))
          /\ discovered_handles' = r.after.discovered
    /\ EndIteration(WithHandle(theses[idx], PyNone), "error")
    /\ UNCHANGED <<metadata_count, metadata_files>>

\* save_theses_file('mytheses.txt', theses_with_handles)
SaveTheses ==
    /\ main_pc = "loop"
    /\ idx > Len(theses)
    /\ file' = save_theses_file(theses_with_handles)
    /\ writes' = writes + 1
    /\ main_pc' = "done"
    /\ UNCHANGED <<stored, current_year, theses, idx, theses_with_handles,
                   discovered_handles, metadata_count, metadata_files, calls,
                   outcomes>>
    /\ UNCHANGED notMain

NextMain ==
    \/ Load
    \/ SkipFuture
    \/ NoHandleFound
    \/ MetadataMissing
    \/ MetadataSaved
    \/ RecordError
    \/ SaveTheses

SpecMain == InitMain /\ [][NextMain]_vars

(***************************************************************************)
(* Properties of main                                                      *)
(***************************************************************************)

Written == 1..Len(theses_with_handles)

CallsFor(j) == SelectSeq(calls, LAMBDA c : c[2] = j)

\* A record of the store whose year is numeric and after the current year
StoredFuture(k) ==
    IsInt(stored[k][4]) /\ Int_(stored[k][4]) > current_year

\* C4: for a record of the record store file whose year is numeric and
\* greater than the current year, with or without a trailing handle, no
\* discover_handle and no get_thesis_metadata call is made and the record
\* is written back unchanged.
C4_FutureRecordUntouched ==
    main_pc \in {"loop", "done"} =>
        \A k \in 1..Len(stored) :
            StoredFuture(k) =>
                /\ CallsFor(k) = <<>>
                /\ k \in Written => theses_with_handles[k] = stored[k]
                /\ main_pc = "done" => file[k] = SaveLine(stored[k])

Failures == {"not_found", "no_metadata", "error"}

C8_DiscoveredHandleKept ==
    \A n \in 1..Len(calls) :
        (/\ calls[n][1] = "discover_handle"
         /\ calls[n][3] # PyNone
         /\ calls[n][2] \in Written) =>
            theses_with_handles[calls[n][2]][5] = calls[n][3]

(***************************************************************************)
(* get_thesis_metadata                                                     *)
(* metadata_dict is a function from its keys to strings; a key that is not *)
(* in the dict maps to Absent.  A Python list of strings is written as the *)
(* string "[a|b]".                                                         *)
(***************************************************************************)

Absent == PyNone

DictKeys ==
    {"dc.title", "dc.contributor.author", "dc.type", "dc.date.issued",
     "dc.contributor.advisor", "dc.publisher", "dc.language.iso",
     "dc.subject", "dc.subject.en"}

EmptyDict == [k \in DictKeys |-> Absent]

\* metadata_dict.get(key) is truthy
Has(dict, key) == Truthy(dict[key])

\* [k.strip() for k in value_text.split(',')]
RECURSIVE StripAll(_)
StripAll(parts) ==
    IF parts = <<>> THEN <<>>
    ELSE <<Strip(Head(parts))>> \o StripAll(Tail(parts))

PyList(parts) == <<"[">> \o Join(parts, "|") \o <<"]">>

KeywordList(value_text) == PyList(StripAll(Split(value_text, ",")))

\* for key, value in metadata.items(): the values the REST API supplies
FromRest(rest_metadata) ==
    [k \in DictKeys |->
        IF Truthy(rest_metadata[k]) THEN rest_metadata[k] ELSE Absent]

\* One row of the metadata table: label holds the words of the chain that
\* occur in label_text, value is value_text
TableRow(dict, row) ==
    LET in(word) == word \in row.label
        set(key, value) == [dict EXCEPT ![key] = value]
    IN  IF in("title") /\ ~Has(dict, "dc.title")
        THEN set("dc.title", row.value)
        ELSE IF in("author") /\ ~Has(dict, "dc.contributor.author")
        THEN set("dc.contributor.author", row.value)
        ELSE IF in("type") /\ ~Has(dict, "dc.type")
        THEN set("dc.type", row.value)
        ELSE IF in("date") /\ in("issued") /\ ~Has(dict, "dc.date.issued")
        THEN set("dc.date.issued", row.value)
        ELSE IF in("supervisor") /\ ~Has(dict, "dc.contributor.advisor")
        THEN set("dc.contributor.advisor", row.value)
        ELSE IF in("department") /\ ~Has(dict, "dc.publisher")
        THEN set("dc.publisher", row.value)
        ELSE IF in("language") /\ ~Has(dict, "dc.language.iso")
        THEN set("dc.language.iso", row.value)
        ELSE IF in("keywords")
        THEN IF in("english")
             THEN set("dc.subject.en", KeywordList(row.value))
             ELSE set("dc.subject", KeywordList(row.value))
        ELSE dict

\* for row in metadata_table.find_all('tr')
RECURSIVE TableRows(_, _)
TableRows(dict, rows) ==
    IF rows = <<>> THEN dict
    ELSE TableRows(TableRow(dict, Head(rows)), Tail(rows))

\* The h2 page-header fallback for the title
PageHeader(dict, header) ==
    IF ~Has(dict, "dc.title") /\ header # Absent
    THEN [dict EXCEPT !["dc.title"] = header]
    ELSE dict

\* One meta tag: name holds the DC names that occur in its name attribute
MetaTag(dict, meta) ==
    LET in(word) == word \in meta.name
        set(key) == [dict EXCEPT ![key] = meta.content]
    IN  IF meta.name = {} \/ meta.content = <<>> THEN dict
        ELSE IF in("DC.title") /\ ~Has(dict, "dc.title")
        THEN set("dc.title")
        ELSE IF in("DC.creator") /\ ~Has(dict, "dc.contributor.author")
        THEN set("dc.contributor.author")
        ELSE IF in("DC.type") /\ ~Has(dict, "dc.type")
        THEN set("dc.type")
        ELSE IF in("DC.date") /\ ~Has(dict, "dc.date.issued")
        THEN set("dc.date.issued")
        ELSE dict

RECURSIVE MetaTags(_, _)
MetaTags(dict, metas) ==
    IF metas = <<>> THEN dict
    ELSE MetaTags(MetaTag(dict, Head(metas)), Tail(metas))

\* metadata_dict.get(key, default)
Get(dict, key, default) == IF dict[key] = Absent THEN default ELSE dict[key]

\* metadata_dict when the ThesisMetadata is built
MetadataDict(rest_response, html_response) ==
    LET d0 == IF rest_response.ok THEN FromRest(rest_response.metadata)
              ELSE EmptyDict
        d1 == IF html_response.table
              THEN TableRows(d0, html_response.rows) ELSE d0
        d2 == PageHeader(d1, html_response.header)
    IN  MetaTags(d2, html_response.metas)

\* ThesisMetadata(title=metadata_dict.get('dc.title', ''), ...)
ThesisMetadata(dict) ==
    [title |-> Get(dict, "dc.title", <<>>),
     author |-> Get(dict, "dc.contributor.author", <<>>),
     type |-> Get(dict, "dc.type", <<>>),
     year |-> IF Has(dict, "dc.date.issued")
              THEN SubSeq(dict["dc.date.issued"], 1,
                          IF Len(dict["dc.date.issued"]) < 4
                          THEN Len(dict["dc.date.issued"]) ELSE 4)
              ELSE <<>>,
     keywords |-> Get(dict, "dc.subject", PyList(<<>>)),
     keywords_en |-> Get(dict, "dc.subject.en", PyList(<<>>)),
     department |-> Get(dict, "dc.publisher", <<>>),
     supervisor |-> Get(dict, "dc.contributor.advisor", <<>>),
     language |-> Get(dict, "dc.language.iso", <<>>)]

\* ---- the responses the two endpoints may give --------------------------

RestValue == <<"r">>
RestDate == <<"2", "0", "1", "9", "-", "0", "6">>

\* The fields the structured endpoint may supply
RestSupplied == {"dc.title", "dc.date.issued", "dc.subject"}

RestResponses ==
    { [ok |-> TRUE, json |-> TRUE,
       metadata |-> [k \in DictKeys |->
                       IF k \in keys
                       THEN (IF k = "dc.date.issued" THEN RestDate
                             ELSE RestValue)
                       ELSE Absent]] : keys \in SUBSET RestSupplied }
    \cup { [ok |-> FALSE, json |-> TRUE, metadata |-> EmptyDict],
           [ok |-> TRUE, json |-> FALSE, metadata |-> EmptyDict] }

RowLabels ==
    { {"title"}, {"author"}, {"date", "issued"}, {"supervisor"},
      {"keywords"}, {"keywords", "english"} }

RowValues == { <<"x", ",", " ", "y">>, <<"2", "0", "2", "1">> }

TablePool == [label : RowLabels, value : RowValues]

MetaPool == [name : {{"DC.title"}, {"DC.creator"}}, content : {<<"m">>}]

HtmlResponses ==
    [ok : {TRUE}, table : {TRUE}, rows : Lists(TablePool, MaxRows),
     header : {Absent, <<"h">>}, metas : Lists(MetaPool, MaxMeta)]
    \cup [ok : {TRUE}, table : {FALSE}, rows : {<<>>},
          header : {Absent, <<"h">>}, metas : Lists(MetaPool, MaxMeta)]
    \cup {[ok |-> FALSE, table |-> FALSE, rows |-> <<>>, header |-> Absent,
           metas |-> <<>>]}

InitFetch ==
    /\ IdleScore
    /\ IdleResolver
    /\ IdleStore
    /\ IdleMain
    /\ fetch_pc = "call"
    /\ rest \in RestResponses
    /\ html \in HtmlResponses
    /\ metadata = None

\* Both requests answer and the ThesisMetadata is returned
ReturnMetadata ==
    /\ fetch_pc = "call"
    /\ rest.json
    /\ html.ok
    /\ metadata' = ThesisMetadata(MetadataDict(rest, html))
    /\ fetch_pc' = "returned"
    /\ UNCHANGED <<rest, html>>
    /\ UNCHANGED notFetch

\* html_response.ok is false: return None
ReturnNone ==
    /\ fetch_pc = "call"
    /\ rest.json
    /\ ~html.ok
    /\ fetch_pc' = "none"
    /\ UNCHANGED <<rest, html, metadata>>
    /\ UNCHANGED notFetch

\* response.json() raises: except Exception: return None
FetchRaises ==
    /\ fetch_pc = "call"
    /\ ~rest.json
    /\ fetch_pc' = "none"
    /\ UNCHANGED <<rest, html, metadata>>
    /\ UNCHANGED notFetch

NextFetch ==
    \/ ReturnMetadata
    \/ ReturnNone
    \/ FetchRaises

SpecFetch == InitFetch /\ [][NextFetch]_vars

(***************************************************************************)
(* Properties of get_thesis_metadata                                       *)
(***************************************************************************)

\* The label words that make a table row a row of the field
RowMatches(key, row) ==
    CASE key = "dc.title" -> "title" \in row.label
      [] key = "dc.contributor.author" -> "author" \in row.label
      [] key = "dc.type" -> "type" \in row.label
      [] key = "dc.date.issued" -> {"date", "issued"} \subseteq row.label
      [] key = "dc.contributor.advisor" -> "supervisor" \in row.label
      [] key = "dc.publisher" -> "department" \in row.label
      [] key = "dc.language.iso" -> "language" \in row.label
      [] key = "dc.subject" ->
            "keywords" \in row.label /\ "english" \notin row.label
      [] OTHER -> FALSE

MetaMatches(key, meta) ==
    CASE key = "dc.title" -> "DC.title" \in meta.name
      [] key = "dc.contributor.author" -> "DC.creator" \in meta.name
      [] key = "dc.type" -> "DC.type" \in meta.name
      [] key = "dc.date.issued" -> "DC.date" \in meta.name
      [] OTHER -> FALSE

First(seq, P(_)) == seq[CHOOSE i \in 1..Len(seq) :
                          P(seq[i]) /\ \A j \in 1..(i - 1) : ~P(seq[j])]

Some(seq, P(_)) == \E i \in 1..Len(seq) : P(seq[i])

\* The value the priority order gives a field: the structured endpoint's
\* value, else the first matching table row, else (for the title) the page
\* header, else the first matching meta tag, else absent
ByPriority(key) ==
    LET row(r) == RowMatches(key, r)
        tag(m) == MetaMatches(key, m)
    IN  IF rest.ok /\ Truthy(rest.metadata[key]) THEN rest.metadata[key]
        ELSE IF html.table /\ Some(html.rows, row)
        THEN (IF key = "dc.subject"
              THEN KeywordList(First(html.rows, row).value)
              ELSE First(html.rows, row).value)
        ELSE IF key = "dc.title" /\ html.header # Absent THEN html.header
        ELSE IF Some(html.metas, tag) THEN First(html.metas, tag).content
        ELSE Absent

PriorityDict ==
    [k \in DictKeys |->
        IF k = "dc.subject.en" THEN MetadataDict(rest, html)[k]
        ELSE ByPriority(k)]

\* C9: every field of the returned metadata (title, author, type, date,
\* supervisor, department, language, keywords) holds the structured
\* endpoint's value if present, otherwise the first matching row of the
\* HTML table, otherwise the meta-tag value, otherwise nothing.
C9_FieldPriority ==
    fetch_pc = "returned" => metadata = ThesisMetadata(PriorityDict)

(***************************************************************************)
(* _normalize_text and _similarity_score                                   *)
(***************************************************************************)

LowerLetters ==
    <<"a", "b", "c", "d", "e", "f", "g", "h", "i", "j", "k", "l", "m",
      "n", "o", "p", "q", "r", "s", "t", "u", "v", "w", "x", "y", "z">>

UpperLetters ==
    <<"A", "B", "C", "D", "E", "F", "G", "H", "I", "J", "K", "L", "M",
      "N", "O", "P", "Q", "R", "S", "T", "U", "V", "W", "X", "Y", "Z">>

Punctuation == {",", ".", "-", "/", ":", ";", "'", "(", ")", "_"}

\* The characters with ord(c) < 128; every other character is not ASCII
Ascii ==
    Range(LowerLetters) \cup Range(UpperLetters) \cup Range(Digits)
    \cup Whitespace \cup Punctuation

\* c.lower()
Lower(c) ==
    IF c \in Range(UpperLetters)
    THEN LowerLetters[CHOOSE k \in 1..Len(UpperLetters) : UpperLetters[k] = c]
    ELSE c

\* text.split(): the maximal runs of non-whitespace characters
RECURSIVE WordsFrom(_, _)
WordsFrom(s, word) ==
    IF s = <<>> THEN (IF word = <<>> THEN <<>> ELSE <<word>>)
    ELSE IF Head(s) \in Whitespace
    THEN (IF word = <<>> THEN <<>> ELSE <<word>>) \o WordsFrom(Tail(s), <<>>)
    ELSE WordsFrom(Tail(s), Append(word, Head(s)))

Words(s) == WordsFrom(s, <<>>)

_normalize_text(text) ==
    LET lowered == [k \in 1..Len(text) |-> Lower(text[k])]
        ascii == SelectSeq(lowered, LAMBDA c : c \in Ascii)
        plain == SelectSeq(ascii,
                     LAMBDA c : c \in Range(LowerLetters) \cup Range(Digits)
                                      \cup Whitespace)
    IN  Join(Words(plain), " ")

\* Length of the common run of a and b that starts at a[i], b[j] and stays
\* below ahi, bhi
RECURSIVE RunLength(_, _, _, _, _, _)
RunLength(a, b, i, j, ahi, bhi) ==
    IF i < ahi /\ j < bhi /\ a[i] = b[j]
    THEN 1 + RunLength(a, b, i + 1, j + 1, ahi, bhi)
    ELSE 0

\* SequenceMatcher.find_longest_match(alo, ahi, blo, bhi) without junk: the
\* longest common block of a[alo:ahi] and b[blo:bhi]; of several, the one
\* that starts earliest in a, and of those the one that starts earliest in b.
\* Positions count from 1, ahi and bhi are one past the end.
find_longest_match(a, b, alo, ahi, blo, bhi) ==
    LET starts == (alo..(ahi - 1)) \X (blo..(bhi - 1))
        size(p) == RunLength(a, b, p[1], p[2], ahi, bhi)
        bestsize == Max({0} \cup {size(p) : p \in starts})
    IN  IF bestsize = 0 THEN [i |-> alo, j |-> blo, size |-> 0]
        ELSE LET best == {p \in starts : size(p) = bestsize}
                 besti == CHOOSE i \in {p[1] : p \in best} :
                              \A p \in best : i <= p[1]
                 first == {p \in best : p[1] = besti}
                 bestj == CHOOSE j \in {p[2] : p \in first} :
                              \A p \in first : j <= p[2]
             IN  [i |-> besti, j |-> bestj, size |-> bestsize]

\* Total size of the blocks get_matching_blocks finds in a[alo:ahi],
\* b[blo:bhi]: the longest block, then the pieces left and right of it
RECURSIVE MatchingSize(_, _, _, _, _, _)
MatchingSize(a, b, alo, ahi, blo, bhi) ==
    LET m == find_longest_match(a, b, alo, ahi, blo, bhi) IN
        IF m.size = 0 THEN 0
        ELSE m.size
             + (IF alo < m.i /\ blo < m.j
                THEN MatchingSize(a, b, alo, m.i, blo, m.j) ELSE 0)
             + (IF m.i + m.size < ahi /\ m.j + m.size < bhi
                THEN MatchingSize(a, b, m.i + m.size, ahi, m.j + m.size, bhi)
                ELSE 0)

\* _calculate_ratio(matches, length): 2.0 * matches / length, 1.0 if length
\* is 0.  A score is the fraction num / den.
Ratio_EmptyIsZero(matches, length) ==
    IF length > 0 THEN [num |-> 2 * matches, den |-> length]
    ELSE [num |-> 0, den |-> 1]

Ratio(matches, length) ==
    IF length > 0 THEN [num |-> 2 * matches, den |-> length]
    ELSE [num |-> 1, den |-> 1]

\* SequenceMatcher(None, a, b).ratio(), for texts of fewer than 200
\* characters (longer ones bring in the autojunk heuristic)
SequenceRatio(a, b) ==
    Ratio(MatchingSize(a, b, 1, Len(a) + 1, 1, Len(b) + 1), Len(a) + Len(b))

_similarity_score(t1, t2) ==
    SequenceRatio(_normalize_text(t1), _normalize_text(t2))

\* Two scores are the same float
SameScore(x, y) == x.num * y.den = y.num * x.den

IsOne(x) == x.num = x.den

ScoreChars == {"a", "B", " "}

InitScore ==
    /\ IdleResolver
    /\ IdleStore
    /\ IdleMain
    /\ IdleFetch
    /\ score_pc = "forward"
    /\ text1 \in Strings(ScoreChars, MaxText)
    /\ text2 \in Strings(ScoreChars, MaxText)
    /\ forward = NoScore
    /\ backward = NoScore

ScoreForward ==
    /\ score_pc = "forward"
    /\ forward' = _similarity_score(text1, text2)
    /\ score_pc' = "backward"
    /\ UNCHANGED <<text1, text2, backward>>
    /\ UNCHANGED notScore

ScoreBackward ==
    /\ score_pc = "backward"
    /\ backward' = _similarity_score(text2, text1)
    /\ score_pc' = "done"
    /\ UNCHANGED <<text1, text2, forward>>
    /\ UNCHANGED notScore

NextScore ==
    \/ ScoreForward
    \/ ScoreBackward

SpecScore == InitScore /\ [][NextScore]_vars

====
